---- MODULE Spec2Model ----
(***************************************************************************)
(* Confirmation-gated chat commands of the admin panel (src/app.py):       *)
(* adk_operations, parse_adk_operation, check_adk_permissions,             *)
(* handle_confirmation, execute_adk_operation and the three tables they    *)
(* use (AdkMemory, AdkChatHistory, Order/Product).                         *)
(*                                                                         *)
(* Every request runs in a worker of its own; the steps of a request are   *)
(* its database statements (one query or one commit each), and requests    *)
(* interleave between them.  A message is the sequence of its              *)
(* whitespace-separated, lower-cased words.                                *)
(***************************************************************************)
EXTENDS Integers, Sequences, FiniteSets, TLC

(***************************************************************************)
(* Bounds of the model.                                                    *)
(***************************************************************************)
\* Requests that may be in flight at the same time.
NumWorkers == 2
\* Requests received in one behaviour.
MaxRequests == 3

Workers == 1..NumWorkers
Sessions == {"sA", "sB"}

(***************************************************************************)
(* Words and the conversions the parser applies to them.                   *)
(***************************************************************************)
\* int(): the words made of digits only, with their value.
IntOf == ("1" :> 1) @@ ("2" :> 2) @@ ("200" :> 200) @@ ("0771" :> 771)
\* float(): the words of [\d.]+ that float() accepts, in cents.
FloatOf == ("1" :> 100) @@ ("2" :> 200) @@ ("200" :> 20000) @@ ("0771" :> 77100)
             @@ ("19.99" :> 1999)
\* Words of [\d.]+ that float() rejects with ValueError.
BadFloats == {"1.2.3", "."}
\* str.title() on the words used as statuses.
TitleOf == ("shipped" :> "Shipped") @@ ("delivered" :> "Delivered")
             @@ ("delete" :> "Delete") @@ ("1" :> "1") @@ ("2" :> "2")
             @@ ("out" :> "Out") @@ ("for" :> "For") @@ ("delivery" :> "Delivery")
             @@ ("undeleted" :> "Undeleted")

\* The leading digits of a word, as int() reads them (the group of \d+).
IntPrefix == IntOf @@ ("1.2.3" :> 1) @@ ("19.99" :> 19)
\* The leading \w+ of a word (the group of \w+); "." has none.
WordPrefix(w) == CASE w = "19.99" -> "19" [] w = "1.2.3" -> "1" [] OTHER -> w
HasWordPrefix(w) == w # "."
HasIntPrefix(w) == w \in DOMAIN IntPrefix
\* The leading [\d.]+ of a word is the word itself for the words of the model.
HasDigitsDots(w) == w \in DOMAIN FloatOf \/ w \in BadFloats
\* Mutant of Title: the word is left in lower case.
Title_Lower(w) == w
Title(w) == IF w \in DOMAIN TitleOf THEN TitleOf[w] ELSE w

\* The keywords that a longer word of the model contains.
Within(w) == IF w = "undeleted" THEN {"delete"} ELSE {}
\* 'kw' in message_lower: a substring test, so kw is a word of the message
\* or is contained in one.
Has(msg, kw) == \E i \in 1..Len(msg) : msg[i] = kw \/ kw \in Within(msg[i])
\* re.search(r'kw\s+(\d+)'): the positions where  kw <digits...>  starts.
IdAt(msg, kw) == {i \in 1..Len(msg) - 1 : msg[i] = kw /\ HasIntPrefix(msg[i + 1])}
\* re.search(r'kw\s+to\s+(...)'): the positions where  kw to <word>  starts.
ToAt(msg, kw) == {i \in 1..Len(msg) - 2 : msg[i] = kw /\ msg[i + 1] = "to"}
\* re.search(r'customer\s+name').
HasCustomerName(msg) == \E i \in 1..Len(msg) - 1 : msg[i] = "customer" /\ msg[i + 1] = "name"
\* re.search(r'name\s+to').
HasNameTo(msg) == \E i \in 1..Len(msg) - 1 : msg[i] = "name" /\ msg[i + 1] = "to"
\* re.search returns the leftmost match.
Min(S) == CHOOSE x \in S : \A y \in S : x <= y
\* (.+?)(?:\s*$) : the words from position i to the end of the message.
Rest(msg, i) == SubSeq(msg, i, Len(msg))
\* (.+?)(?:\s|$) : the lazy group stops at the first white space.
FirstWord(msg, i) == <<msg[i]>>

Unknown == [type |-> "unknown"]
\* No call of parse_adk_operation was made yet.
NotParsed == [type |-> "not parsed"]
\* float() raised ValueError: the exception leaves parse_adk_operation.
ParseError == [type |-> "ValueError"]

\* Mutant of OrderBranch: the generic edit is tested first.
OrderBranch_EditFirst(msg) ==
  IF IdAt(msg, "order") = {} THEN Unknown
  ELSE IF Has(msg, "edit") \/ Has(msg, "update")
    THEN [type |-> "order_edit",
          target_id |-> IntPrefix[msg[Min(IdAt(msg, "order")) + 1]]]
  ELSE Unknown

OrderBranch(msg) ==
  IF IdAt(msg, "order") = {} THEN Unknown
  ELSE LET order_id == IntPrefix[msg[Min(IdAt(msg, "order")) + 1]] IN
    IF Has(msg, "delete") THEN [type |-> "order_delete", target_id |-> order_id]
    ELSE IF Has(msg, "status") THEN
      LET S == {i \in ToAt(msg, "status") : HasWordPrefix(msg[i + 2])} IN
      IF S = {} THEN Unknown
      ELSE [type |-> "order_update_status", target_id |-> order_id,
            new_status |-> Title(WordPrefix(msg[Min(S) + 2]))]
    ELSE IF HasCustomerName(msg) \/ HasNameTo(msg) THEN
      LET S == ToAt(msg, "name") IN
      IF S = {} THEN Unknown
      ELSE [type |-> "order_update_customer_name", target_id |-> order_id,
            new_customer_name |-> FirstWord(msg, Min(S) + 2)]
    ELSE IF Has(msg, "phone") THEN
      LET S == ToAt(msg, "phone") IN
      IF S = {} THEN Unknown
      ELSE [type |-> "order_update_phone", target_id |-> order_id,
            new_phone |-> msg[Min(S) + 2]]
    ELSE IF Has(msg, "address") THEN
      LET S == ToAt(msg, "address") IN
      IF S = {} THEN Unknown
      ELSE [type |-> "order_update_address", target_id |-> order_id,
            new_address |-> Rest(msg, Min(S) + 2)]
    ELSE IF Has(msg, "edit") \/ Has(msg, "update")
      THEN [type |-> "order_edit", target_id |-> order_id]
    ELSE Unknown

ProductBranch(msg) ==
  IF IdAt(msg, "product") = {} THEN Unknown
  ELSE LET product_id == IntPrefix[msg[Min(IdAt(msg, "product")) + 1]] IN
    IF Has(msg, "stock") THEN
      LET S == {i \in ToAt(msg, "stock") : HasIntPrefix(msg[i + 2])} IN
      IF S = {} THEN Unknown
      ELSE [type |-> "product_update_stock", target_id |-> product_id,
            new_stock |-> IntPrefix[msg[Min(S) + 2]]]
    ELSE IF Has(msg, "price") THEN
      LET S == {i \in ToAt(msg, "price") : HasDigitsDots(msg[i + 2])} IN
      IF S = {} THEN Unknown
      ELSE IF msg[Min(S) + 2] \in BadFloats THEN ParseError
      ELSE [type |-> "product_update_price", target_id |-> product_id,
            new_price |-> FloatOf[msg[Min(S) + 2]]]
    ELSE IF Has(msg, "name") THEN
      LET S == ToAt(msg, "name") IN
      IF S = {} THEN Unknown
      ELSE [type |-> "product_update_name", target_id |-> product_id,
            new_name |-> Rest(msg, Min(S) + 2)]
    ELSE IF Has(msg, "description") THEN
      LET S == ToAt(msg, "description") IN
      IF S = {} THEN Unknown
      ELSE [type |-> "product_update_description", target_id |-> product_id,
            new_description |-> Rest(msg, Min(S) + 2)]
    ELSE IF Has(msg, "edit") \/ Has(msg, "update")
      THEN [type |-> "product_edit", target_id |-> product_id]
    ELSE Unknown

parse_adk_operation(msg) ==
  IF Has(msg, "order") THEN OrderBranch(msg)
  ELSE IF Has(msg, "product") THEN ProductBranch(msg)
  ELSE Unknown

\* The operation kinds that run without confirmation.
BypassKinds == {"order_update_status", "product_update_stock"}
\* Mutants of check_adk_permissions: permission is granted to every kind;
\* and the stock update is missing from the list.
check_adk_permissions_All(operation_type) == TRUE
check_adk_permissions_StatusOnly(operation_type) ==
  operation_type \in {"order_update_status"}
check_adk_permissions(operation_type) == operation_type \in BypassKinds

YesTokens == {"yes", "y", "confirm", "proceed"}
NoTokens == {"no", "n", "cancel", "abort"}
IsYes(msg) == Len(msg) = 1 /\ msg[1] \in YesTokens
IsNo(msg) == Len(msg) = 1 /\ msg[1] \in NoTokens

(***************************************************************************)
(* The record store and the Executor.                                      *)
(***************************************************************************)
\* A response of the handlers: the text it carries (its kind, and the entity
\* and id it names), its type and its success flag.
Response(text, entity, id, type, success) ==
  [response |-> [text |-> text, entity |-> entity, id |-> id],
   type |-> type, success |-> success]
\* Mutant of NotFound: the branch reports success.
NotFound_Success(entity, id) == Response("not found", entity, id, "success", TRUE)
\* The return of a branch whose query found no row: "#<id> not found".
NotFound(entity, id) == Response("not found", entity, id, "error", FALSE)
Done(text, entity, id) == Response(text, entity, id, "success", TRUE)

OrderKinds == {"order_delete", "order_update_status", "order_edit",
               "order_update_customer_name", "order_update_phone",
               "order_update_address"}
ProductKinds == {"product_update_stock", "product_update_price",
                 "product_update_name", "product_update_description",
                 "product_edit"}
Kinds == OrderKinds \cup ProductKinds

\* What a branch of the Executor leaves: the two tables and the result.
Out(O, P, result) == [orders |-> O, products |-> P, result |-> result]

\* db.session.delete(order); db.session.commit()
DeleteRow(T, id) == [i \in DOMAIN T \ {id} |-> T[i]]
\* Order.query.get(target_id) / Product.query.get(target_id) found a row.
Found(T, id) == id \in DOMAIN T

\* Mutant of SetField: the assignment reaches every row of the table.
SetField_AllRows(T, id, field, value) ==
  [i \in DOMAIN T |-> [T[i] EXCEPT ![field] = value]]
\* row.<field> = value; db.session.commit()
SetField(T, id, field, value) == [T EXCEPT ![id][field] = value]

\* The branches of execute_adk_operation, in the order of the source.
ExecOrderDelete(op, O, P) ==
  IF ~Found(O, op.target_id) THEN Out(O, P, NotFound("Order", op.target_id))
  ELSE Out(DeleteRow(O, op.target_id), P, Done("deleted", "Order", op.target_id))

ExecOrderUpdateStatus(op, O, P) ==
  IF ~Found(O, op.target_id) THEN Out(O, P, NotFound("Order", op.target_id))
  ELSE Out(SetField(O, op.target_id, "status", op.new_status), P,
           Done("status updated", "Order", op.target_id))

ExecProductUpdateStock(op, O, P) ==
  IF ~Found(P, op.target_id) THEN Out(O, P, NotFound("Product", op.target_id))
  ELSE Out(O, SetField(P, op.target_id, "stock", op.new_stock),
           Done("stock updated", "Product", op.target_id))

ExecProductUpdatePrice(op, O, P) ==
  IF ~Found(P, op.target_id) THEN Out(O, P, NotFound("Product", op.target_id))
  ELSE Out(O, SetField(P, op.target_id, "price", op.new_price),
           Done("price updated", "Product", op.target_id))

\* Mutant of ExecOrderEdit: the view writes to the order it shows.
ExecOrderEdit_Touch(op, O, P) ==
  IF ~Found(O, op.target_id) THEN Out(O, P, NotFound("Order", op.target_id))
  ELSE Out(SetField(O, op.target_id, "status", "Viewed"), P,
           Response("details", "Order", op.target_id, "info", TRUE))

ExecOrderEdit(op, O, P) ==
  IF ~Found(O, op.target_id) THEN Out(O, P, NotFound("Order", op.target_id))
  ELSE Out(O, P, Response("details", "Order", op.target_id, "info", TRUE))

ExecOrderUpdateCustomerName(op, O, P) ==
  IF ~Found(O, op.target_id) THEN Out(O, P, NotFound("Order", op.target_id))
  ELSE Out(SetField(O, op.target_id, "customer_name", op.new_customer_name), P,
           Done("customer name updated", "Order", op.target_id))

ExecOrderUpdatePhone(op, O, P) ==
  IF ~Found(O, op.target_id) THEN Out(O, P, NotFound("Order", op.target_id))
  ELSE Out(SetField(O, op.target_id, "customer_phone", op.new_phone), P,
           Done("phone updated", "Order", op.target_id))

ExecOrderUpdateAddress(op, O, P) ==
  IF ~Found(O, op.target_id) THEN Out(O, P, NotFound("Order", op.target_id))
  ELSE Out(SetField(O, op.target_id, "customer_address", op.new_address), P,
           Done("address updated", "Order", op.target_id))

ExecProductUpdateName(op, O, P) ==
  IF ~Found(P, op.target_id) THEN Out(O, P, NotFound("Product", op.target_id))
  ELSE Out(O, SetField(P, op.target_id, "name", op.new_name),
           Done("name updated", "Product", op.target_id))

ExecProductUpdateDescription(op, O, P) ==
  IF ~Found(P, op.target_id) THEN Out(O, P, NotFound("Product", op.target_id))
  ELSE Out(O, SetField(P, op.target_id, "description", op.new_description),
           Done("description updated", "Product", op.target_id))

ExecProductEdit(op, O, P) ==
  IF ~Found(P, op.target_id) THEN Out(O, P, NotFound("Product", op.target_id))
  ELSE Out(O, P, Response("details", "Product", op.target_id, "info", TRUE))

\* execute_adk_operation on the store (O, P): the store it leaves and the
\* result it returns.  The query, the assignment and the commit of a branch
\* are one step of the model.
execute_adk_operation(op, O, P) ==
  CASE op.type = "order_delete" -> ExecOrderDelete(op, O, P)
    [] op.type = "order_update_status" -> ExecOrderUpdateStatus(op, O, P)
    [] op.type = "product_update_stock" -> ExecProductUpdateStock(op, O, P)
    [] op.type = "product_update_price" -> ExecProductUpdatePrice(op, O, P)
    [] op.type = "order_edit" -> ExecOrderEdit(op, O, P)
    [] op.type = "order_update_customer_name" -> ExecOrderUpdateCustomerName(op, O, P)
    [] op.type = "order_update_phone" -> ExecOrderUpdatePhone(op, O, P)
    [] op.type = "order_update_address" -> ExecOrderUpdateAddress(op, O, P)
    [] op.type = "product_update_name" -> ExecProductUpdateName(op, O, P)
    [] op.type = "product_update_description" -> ExecProductUpdateDescription(op, O, P)
    [] op.type = "product_edit" -> ExecProductEdit(op, O, P)
    [] OTHER -> Out(O, P, Response("not implemented", "", 0, "error", FALSE))

\* generate_confirmation_request: the text of the prompt.  It reads the
\* record store, and for order_delete and product_update_price (and the two
\* bypass kinds) it is the "not found" text when the target is absent.
generate_confirmation_request(op, O, P) ==
  LET id == op.target_id
      text(t, e) == [text |-> t, entity |-> e, id |-> id]
  IN
  CASE op.type \in {"order_delete", "order_update_status"} ->
         IF id \in DOMAIN O THEN text("confirm?", "Order")
         ELSE text("not found", "Order")
    [] op.type \in {"product_update_stock", "product_update_price"} ->
         IF id \in DOMAIN P THEN text("confirm?", "Product")
         ELSE text("not found", "Product")
    [] op.type = "order_edit" -> text("view?", "Order")
    [] op.type = "product_edit" -> text("view?", "Product")
    [] OTHER -> [text |-> "confirm?", entity |-> "", id |-> 0]

(***************************************************************************)
(* State.                                                                  *)
(***************************************************************************)
VARIABLES
  orders,     \* Order table: id -> row, for the ids present
  products,   \* Product table: id -> row, for the ids present
  memory,     \* AdkMemory table: the rows in insertion (id) order
  history,    \* AdkChatHistory table: the rows in insertion (id) order
  req,        \* per worker: the request it is handling and where it stands
  received,   \* number of requests received so far
  executions, \* history variable: the calls of execute_adk_operation
  replies,    \* history variable: the responses returned, in order
  message,    \* the message given to parse_adk_operation on its own
  parsed,     \* what parse_adk_operation made of it
  shown       \* the response of the history endpoint

vars == <<orders, products, memory, history, req, received, executions, replies,
          message, parsed, shown>>

PendingKey == "pending_operation"
\* json.dumps(operation_result) is <<op>>; the cleared value '' is <<>>.
EmptyValue == <<>>
\* What .first() returns when no row matches.
NoRow == 0
\* Python's None, as a value that is neither '' nor a serialized operation.
None == <<[type |-> "None"]>>

\* Mutant of FirstRow: the query filters by key only.
FirstRow_AnySession(M, session_id, key) ==
  LET S == {i \in 1..Len(M) : M[i].key = key}
  IN IF S = {} THEN NoRow ELSE Min(S)
\* AdkMemory.query.filter_by(session_id, key).first(): the index of the
\* first matching row, NoRow if there is none.
FirstRow(M, session_id, key) ==
  LET S == {i \in 1..Len(M) : M[i].session_id = session_id /\ M[i].key = key}
  IN IF S = {} THEN NoRow ELSE Min(S)

\* Mutant of get_adk_memory: the value is given only as long as no audit
\* row was added after the one saved with it.
get_adk_memory_Expiring(M, session_id, key) ==
  IF FirstRow(M, session_id, key) = NoRow THEN None
  ELSE IF M[FirstRow(M, session_id, key)].episode # Len(history) THEN None
  ELSE M[FirstRow(M, session_id, key)].value
\* get_adk_memory: the value of the row, None when there is no row.
get_adk_memory(M, session_id, key) ==
  IF FirstRow(M, session_id, key) = NoRow THEN None
  ELSE M[FirstRow(M, session_id, key)].value

\* `not pending_op_json`: None and '' are both falsy.
Falsy(v) == v = None \/ v = EmptyValue

\* Mutants of WriteMemory: the value of the row found is not assigned; and
\* a row is inserted whether or not one was found.
WriteMemory_NoAssign(M, row, session_id, key, value, episode) ==
  IF row # NoRow THEN M
  ELSE Append(M, [session_id |-> session_id, key |-> key, value |-> value,
                  episode |-> episode])
WriteMemory_AlwaysInsert(M, row, session_id, key, value, episode) ==
  Append(M, [session_id |-> session_id, key |-> key, value |-> value,
             episode |-> episode])

\* The write of save_adk_memory, given the row its query found: update that
\* row, or insert a new one.  episode is a history variable: the id of the
\* audit row created with the stored operation (NoRow with the value '').
WriteMemory(M, row, session_id, key, value, episode) ==
  IF row # NoRow
    THEN [M EXCEPT ![row].value = value, ![row].episode = episode]
    ELSE Append(M, [session_id |-> session_id, key |-> key, value |-> value,
                    episode |-> episode])

\* save_chat_history: append a row; its id is returned.
NewChat(H, session_id, operation_type, target_id, confirmation_required) ==
  [id |-> Len(H) + 1, session_id |-> session_id,
   operation_type |-> operation_type, target_id |-> target_id,
   confirmation_required |-> confirmation_required,
   confirmed |-> FALSE, executed |-> FALSE]
save_chat_history(H, session_id, operation_type, target_id, confirmation_required) ==
  Append(H, NewChat(H, session_id, operation_type, target_id, confirmation_required))

\* The query of handle_confirmation: the most recent row of the session with
\* confirmation_required and not confirmed (NoRow if none).
Max(S) == CHOOSE x \in S : \A y \in S : x >= y
RecentUnconfirmed(H, session_id) ==
  LET S == {i \in 1..Len(H) : /\ H[i].session_id = session_id
                              /\ H[i].confirmation_required
                              /\ ~H[i].confirmed}
  IN IF S = {} THEN NoRow ELSE Max(S)

\* The update of the audit row after a reply: 'yes' sets both flags, 'no'
\* assigns confirmed = False.
MarkHistory(H, session_id, confirmed) ==
  LET i == RecentUnconfirmed(H, session_id) IN
  IF i = NoRow THEN H
  ELSE IF confirmed THEN [H EXCEPT ![i].confirmed = TRUE, ![i].executed = TRUE]
  ELSE [H EXCEPT ![i].confirmed = FALSE]

\* reversed(...) of a list.
Reverse(seq) == [i \in 1..Len(seq) |-> seq[Len(seq) + 1 - i]]
\* AdkChatHistory.query.filter_by(session_id=session_id), in insertion order.
SessionRows(H, session_id) == SelectSeq(H, LAMBDA r : r.session_id = session_id)
\* get_chat_history: .order_by(created_at.desc()).limit(limit).all()
get_chat_history(H, session_id, limit) ==
  LET R == Reverse(SessionRows(H, session_id))
  IN SubSeq(R, 1, Min({limit, Len(R)}))
\* The limit get_adk_history passes.
HistoryLimit == 20
\* Mutant of get_adk_history: the list is not reversed.
get_adk_history_Newest(H, session_id) ==
  get_chat_history(H, session_id, HistoryLimit)
\* get_adk_history: the rows of the session, oldest first.
get_adk_history(H, session_id) ==
  Reverse(get_chat_history(H, session_id, HistoryLimit))
\* No response of the history endpoint yet.
NotShown == [session_id |-> "", history |-> <<>>]

(***************************************************************************)
(* Requests.  Of a request the worker keeps: pc, where it stands;           *)
(* session_id, confirmed, operation_result, result and value, the locals   *)
(* of the handlers; memory, the row found by the query of                  *)
(* save_adk_memory.  The other fields are history variables: n numbers     *)
(* the requests in the order received, seen is the number of responses     *)
(* returned before this request was received, token is the class of the    *)
(* message, episode the id of the audit row of the prompt.                 *)
(***************************************************************************)
Idle ==
  [pc |-> "idle", n |-> 0, seen |-> 0, session_id |-> "", token |-> "", confirmed |-> FALSE,
   operation_result |-> Unknown, episode |-> NoRow, memory |-> NoRow,
   value |-> EmptyValue, result |-> Response("", "", 0, "", FALSE)]

\* The response leaves the handler: it is recorded and the worker is free.
Return(w, r, result) ==
  /\ replies' = Append(replies, [n |-> r.n, seen |-> r.seen, session_id |-> r.session_id,
                                 token |-> r.token,
                                 operation_result |-> r.operation_result,
                                 episode |-> r.episode,
                                 result |-> result])
  /\ req' = [req EXCEPT ![w] = Idle]

\* One call of execute_adk_operation by worker w, recorded.
Executed(w, how, out) ==
  executions' = Append(executions,
    [n |-> req[w].n, seen |-> req[w].seen, session_id |-> req[w].session_id,
     how |-> how,
     operation_result |-> req[w].operation_result, episode |-> req[w].episode,
     success |-> out.result.success,
     changed |-> (out.orders # orders \/ out.products # products)])

\* The messages of the model: the eight confirmation tokens, one command of
\* every kind for the order and the product that exist, commands for an id
\* that does not exist, a message that is no command, and a price that
\* float() rejects.
Ids == {"1", "2"}
Commands(id) ==
  { <<"delete", "order", id>>,
    <<"update", "order", id, "status", "to", "shipped">>,
    <<"change", "order", id, "customer", "name", "to", "nimal">>,
    <<"update", "order", id, "phone", "to", "0771">>,
    <<"change", "order", id, "address", "to", "kandy">>,
    <<"edit", "order", id>>,
    <<"update", "product", id, "stock", "to", "200">>,
    <<"update", "product", id, "price", "to", "19.99">>,
    <<"change", "product", id, "name", "to", "gasmax">>,
    <<"update", "product", id, "description", "to", "refill">>,
    <<"edit", "product", id>> }
Replies == {<<t>> : t \in YesTokens \cup NoTokens}
Messages ==
  Replies \cup UNION {Commands(id) : id \in Ids}
    \cup {<<"hello">>, <<"update", "product", "1", "price", "to", "1.2.3">>}
\* The messages of the concurrent specification: the tokens, two commands
\* that need confirmation, one that does not, one whose target does not
\* exist and one that is no command.
RaceMessages ==
  Replies \cup { <<"delete", "order", "1">>,
                 <<"update", "product", "1", "price", "to", "19.99">>,
                 <<"update", "product", "1", "stock", "to", "200">>,
                 <<"delete", "order", "2">>,
                 <<"hello">> }

\* White space at an end of the message, and `.strip()`, which removes it.
Blank == " "
RECURSIVE strip(_)
strip(msg) ==
  IF msg = <<>> THEN msg
  ELSE IF Head(msg) = Blank THEN strip(Tail(msg))
  ELSE IF msg[Len(msg)] = Blank THEN strip(SubSeq(msg, 1, Len(msg) - 1))
  ELSE msg

\* What the handler keeps of the message once it is dispatched.
Token(msg) == IF IsYes(msg) THEN "yes" ELSE IF IsNo(msg) THEN "no" ELSE "command"

\* adk_operations up to its first database statement: the token test, the
\* parse and the permission check.  A ValueError of the parse is caught by
\* the handler's except clause and answered at once.  The request is given
\* to the first free worker; its session is one of Sess, its message one of
\* Msgs.
Receive(w, Sess, Msgs) ==
  /\ req[w].pc = "idle"
  /\ \A v \in Workers : v < w => req[v].pc # "idle"
  /\ received < MaxRequests
  /\ received' = received + 1
  /\ \E session_id \in Sess, raw \in Msgs :
     LET msg == strip(raw)
         op == IF IsYes(msg) \/ IsNo(msg) THEN Unknown ELSE parse_adk_operation(msg)
         r == [Idle EXCEPT !.n = received + 1, !.seen = Len(replies),
                           !.session_id = session_id,
                           !.token = Token(msg), !.confirmed = IsYes(msg),
                           !.operation_result = op]
       IN
       IF IsYes(msg) \/ IsNo(msg) THEN
         /\ req' = [req EXCEPT ![w] = [r EXCEPT !.pc = "read_pending"]]
         /\ UNCHANGED replies
       ELSE IF op.type = "ValueError" THEN
         Return(w, r, Response("ADK operation error", "", 0, "error", FALSE))
       ELSE
         /\ req' = [req EXCEPT ![w] = [r EXCEPT !.pc =
                      IF op.type = "unknown" THEN "help"
                      ELSE IF ~check_adk_permissions(op.type) THEN "prompt"
                      ELSE "auto_execute"]]
         /\ UNCHANGED replies
  /\ UNCHANGED <<orders, products, memory, history, executions, message, parsed, shown>>
\* Unknown operation: the help text is saved to the history and returned.
Help(w) ==
  /\ req[w].pc = "help"
  /\ history' = save_chat_history(history, req[w].session_id, "", 0, FALSE)
  /\ Return(w, req[w], Response("help", "", 0, "help", TRUE))
  /\ UNCHANGED <<orders, products, memory, received, executions, message, parsed, shown>>
\* Confirmation required: the prompt is generated from the record store and
\* saved to the history with confirmation_required=True.
Prompt(w) ==
  /\ req[w].pc = "prompt"
  /\ LET op == req[w].operation_result
         text == generate_confirmation_request(op, orders, products)
     IN
     /\ history' = save_chat_history(history, req[w].session_id, op.type,
                                     op.target_id, TRUE)
     /\ req' = [req EXCEPT ![w].pc = "save_query",
                           ![w].episode = Len(history) + 1,
                           ![w].value = <<op>>,
                           ![w].result = [response |-> text,
                                          type |-> "confirmation_required",
                                          success |-> TRUE]]
  /\ UNCHANGED <<orders, products, memory, received, executions, replies, message, parsed, shown>>
\* save_adk_memory, first statement: the query for the row.
SaveQuery(w) ==
  /\ req[w].pc = "save_query"
  /\ req' = [req EXCEPT ![w].pc = "save_write",
                        ![w].memory = FirstRow(memory, req[w].session_id, PendingKey)]
  /\ UNCHANGED <<orders, products, memory, history, received, executions, replies, message, parsed, shown>>
\* save_adk_memory, second statement: the update or insert, committed.  It
\* is the last statement of both handlers: the response is returned.
SaveWrite(w) ==
  /\ req[w].pc = "save_write"
  /\ memory' = WriteMemory(memory, req[w].memory, req[w].session_id, PendingKey,
                           req[w].value,
                           IF req[w].value = EmptyValue THEN NoRow ELSE req[w].episode)
  /\ Return(w, req[w], req[w].result)
  /\ UNCHANGED <<orders, products, history, received, executions, message, parsed, shown>>
\* Permission granted: the operation is executed in the request itself.
AutoExecute(w) ==
  /\ req[w].pc = "auto_execute"
  /\ LET out == execute_adk_operation(req[w].operation_result, orders, products) IN
     /\ orders' = out.orders
     /\ products' = out.products
     /\ Executed(w, "auto", out)
     /\ req' = [req EXCEPT ![w].pc = "auto_save", ![w].result = out.result]
  /\ UNCHANGED <<memory, history, received, replies, message, parsed, shown>>
\* ... and the interaction is saved to the history.
AutoSave(w) ==
  /\ req[w].pc = "auto_save"
  /\ history' = save_chat_history(history, req[w].session_id,
                                  req[w].operation_result.type,
                                  req[w].operation_result.target_id, FALSE)
  /\ Return(w, req[w], req[w].result)
  /\ UNCHANGED <<orders, products, memory, received, executions, message, parsed, shown>>
\* Mutant of AfterRead: the flag is not tested.
AfterRead_Always(confirmed) == "confirm_execute"

\* `if confirmed:` : 'yes' goes on to the Executor, 'no' to the audit row.
AfterRead(confirmed) == IF confirmed THEN "confirm_execute" ELSE "mark"

\* Mutant of NoPending: the reply reports success.
NoPending_Success == Response("no pending operation", "", 0, "success", TRUE)
\* The reply to a token when `not pending_op_json`.
NoPending == Response("no pending operation", "", 0, "error", FALSE)

\* handle_confirmation, first statement: the pending operation is read.
\* With nothing pending the error is returned (nothing is saved).
ReadPending(w) ==
  /\ req[w].pc = "read_pending"
  /\ LET pending_op_json == get_adk_memory(memory, req[w].session_id, PendingKey)
         row == FirstRow(memory, req[w].session_id, PendingKey)
     IN
     IF Falsy(pending_op_json) THEN
       Return(w, req[w], NoPending)
     ELSE
       /\ req' = [req EXCEPT
            ![w].pc = AfterRead(req[w].confirmed),
            ![w].operation_result = pending_op_json[1],
            ![w].episode = memory[row].episode,
            ![w].result = Response("cancelled", "", 0, "cancelled", TRUE)]
       /\ UNCHANGED replies
  /\ UNCHANGED <<orders, products, memory, history, received, executions, message, parsed, shown>>
\* 'yes': the pending operation is executed.
ConfirmExecute(w) ==
  /\ req[w].pc = "confirm_execute"
  /\ LET out == execute_adk_operation(req[w].operation_result, orders, products) IN
     /\ orders' = out.orders
     /\ products' = out.products
     /\ Executed(w, "confirmed", out)
     /\ req' = [req EXCEPT ![w].pc = "mark", ![w].result = out.result]
  /\ UNCHANGED <<memory, history, received, replies, message, parsed, shown>>
\* The audit row is looked up and marked; then the pending operation is
\* cleared by save_adk_memory(session_id, 'pending_operation', '').
Mark(w) ==
  /\ req[w].pc = "mark"
  /\ history' = MarkHistory(history, req[w].session_id, req[w].confirmed)
  /\ req' = [req EXCEPT ![w].pc = "save_query", ![w].value = EmptyValue]
  /\ UNCHANGED <<orders, products, memory, received, executions, replies, message, parsed, shown>>
(***************************************************************************)
(* Specifications.                                                         *)
(***************************************************************************)
\* The record store at the start: orders 1 and 3 and products 1 and 3
\* exist, order 2 and product 2 do not.
Orders0 ==
  (1 :> [customer_name |-> <<"kamal">>, customer_phone |-> "0112",
         customer_address |-> <<"colombo">>, total_amount |-> 2500,
         status |-> "Pending"])
  @@ (3 :> [customer_name |-> <<"sunil">>, customer_phone |-> "0113",
            customer_address |-> <<"galle">>, total_amount |-> 900,
            status |-> "Delivered"])
Products0 ==
  (1 :> [name |-> <<"gas">>, description |-> <<"cylinder">>,
         price |-> 1500, stock |-> 40])
  @@ (3 :> [name |-> <<"regulator">>, description |-> <<"valve">>,
            price |-> 700, stock |-> 5])

Init ==
  /\ orders = Orders0
  /\ products = Products0
  /\ memory = <<>>
  /\ history = <<>>
  /\ req = [w \in Workers |-> Idle]
  /\ received = 0
  /\ executions = <<>>
  /\ replies = <<>>
  /\ message = <<>>
  /\ parsed = NotParsed
  /\ shown = NotShown

Step(w, Sess, Msgs) ==
  \/ Receive(w, Sess, Msgs)
  \/ Help(w)
  \/ Prompt(w)
  \/ SaveQuery(w)
  \/ SaveWrite(w)
  \/ AutoExecute(w)
  \/ AutoSave(w)
  \/ ReadPending(w)
  \/ ConfirmExecute(w)
  \/ Mark(w)

\* Requests are handled concurrently, one worker each.
Next == \E w \in Workers : Step(w, Sessions, RaceMessages)
Spec == Init /\ [][Next]_vars

\* The requests of one session, handled one at a time: a request is received
\* only when no other is in flight.
NoneInFlight == \A w \in Workers : req[w].pc = "idle"
NextSeq ==
  \E w \in Workers : (NoneInFlight \/ req[w].pc # "idle") /\ Step(w, {"sA"}, Messages)
SpecSeq == Init /\ [][NextSeq]_vars

(***************************************************************************)
(* The parser on its own: parse_adk_operation applied to one message.      *)
(***************************************************************************)
\* The messages given to the parser:  <verb> <entity> <id> <tail>, and some
\* that name no entity or no id.
Verbs == {"update", "change", "edit", "delete"}
Entities == {"order", "product"}
ParseIds == {"1", "200"}
StatusTexts == {<<"shipped">>, <<"delivered">>, <<"out", "for", "delivery">>,
                <<"delete">>, <<"undeleted">>}
Tails ==
  {<<>>, <<"status">>}
    \cup {<<"status", "to">> \o st : st \in StatusTexts}
    \cup {<<"stock", "to", v>> : v \in {"200", "abc", "19.99"}}
    \cup {<<"price", "to", v>> : v \in {"19.99", "200", "1.2.3", ".", "abc"}}
    \cup {<<"customer", "name", "to", "nimal">>,
          <<"customer", "name", "to", "nimal", "perera">>,
          <<"name", "to", "nimal", "perera">>,
          <<"phone", "to", "0771">>,
          <<"address", "to", "kandy">>,
          <<"address", "to", "delete", "road">>,
          <<"address", "to", "phone", "lane">>,
          <<"description", "to", "refill">>}
ParseMessages ==
  {<<v, e, id>> \o t : v \in Verbs, e \in Entities, id \in ParseIds, t \in Tails}
    \cup {<<"hello">>, <<"update", "order">>, <<"edit", "product">>}

\* operation_result = parse_adk_operation(message)
Parse ==
  /\ parsed = NotParsed
  /\ parsed' = parse_adk_operation(message)
  /\ UNCHANGED <<orders, products, memory, history, req, received, executions,
                 replies, message, shown>>

InitParse ==
  /\ message \in ParseMessages
  /\ parsed = NotParsed
  /\ orders = Orders0
  /\ products = Products0
  /\ memory = <<>>
  /\ history = <<>>
  /\ req = [w \in Workers |-> Idle]
  /\ received = 0
  /\ executions = <<>>
  /\ replies = <<>>
  /\ shown = NotShown
NextParse == Parse
SpecParse == InitParse /\ [][NextParse]_vars

(***************************************************************************)
(* The history endpoint on its own: audit rows are saved for two sessions  *)
(* and one session asks for its history.                                   *)
(***************************************************************************)
\* Audit rows saved in one behaviour, and those of the other session among
\* them.
MaxRows == 22
MaxOtherRows == 2
Caller == "sA"

\* save_chat_history(session_id, ...) of some request of the session.
AddChat(session_id) ==
  /\ shown = NotShown
  /\ Len(history) < MaxRows
  /\ session_id # Caller => Len(SessionRows(history, session_id)) < MaxOtherRows
  /\ history' = save_chat_history(history, session_id, "", 0, FALSE)
  /\ UNCHANGED <<orders, products, memory, req, received, executions, replies,
                 message, parsed, shown>>

\* GET /admin/adk_history of the session.
View(session_id) ==
  /\ shown = NotShown
  /\ shown' = [session_id |-> session_id,
               history |-> get_adk_history(history, session_id)]
  /\ UNCHANGED <<orders, products, memory, history, req, received, executions,
                 replies, message, parsed>>

NextHistory ==
  \/ \E session_id \in Sessions : AddChat(session_id)
  \/ \E session_id \in Sessions : View(session_id)
SpecHistory == Init /\ [][NextHistory]_vars

(***************************************************************************)
(* Vocabulary of the properties.                                           *)
(***************************************************************************)
\* The calls of the Executor made for a 'yes', and those made for the
\* pending operation of the prompt with audit row id e.
ConfirmedRuns == {i \in 1..Len(executions) : executions[i].how = "confirmed"}
RunsOf(e) == {i \in ConfirmedRuns : executions[i].episode = e}
\* The calls of the Executor made by request number n.
RunsBy(n) == {i \in 1..Len(executions) : executions[i].n = n}
\* The responses that are confirmation prompts: each stored its operation
\* as the pending operation of its session.
Prompts == {p \in 1..Len(replies) : replies[p].result.type = "confirmation_required"}
\* What a reader of the session's slot finds.
Pending(session_id) == get_adk_memory(memory, session_id, PendingKey)

(***************************************************************************)
(* C1.  One pending operation, two concurrent 'yes' messages of its        *)
(* session: the Executor is called for that operation at most once, in     *)
(* every interleaving of the steps of handle_confirmation.  (The 'yes'     *)
(* messages counted are those received after the prompt was returned, and  *)
(* the calls counted those that succeeded.)                                *)
(***************************************************************************)
C1_TwoYesOneExecution ==
  \A p \in Prompts :
    Cardinality({i \in RunsOf(replies[p].episode) :
                   executions[i].seen >= p /\ executions[i].success}) <= 1

(***************************************************************************)
(* C2.  Requests of a session handled one at a time: a 'yes' that follows  *)
(* a confirmation prompt calls the Executor exactly once, for the          *)
(* operation of that prompt, and leaves the slot empty; a second 'yes'     *)
(* right after it calls nothing and gets the no-pending-operation error.   *)
(***************************************************************************)
Follows(j, i) == i = j - 1 /\ replies[i].session_id = replies[j].session_id
C2_YesOnceThenNothing ==
  /\ \A j \in 2..Len(replies) :
       replies[j].token = "yes" /\ j - 1 \in Prompts /\ Follows(j, j - 1) =>
         /\ Cardinality(RunsBy(replies[j].n)) = 1
         /\ \A i \in RunsBy(replies[j].n) :
              /\ executions[i].operation_result = replies[j - 1].operation_result
              /\ executions[i].how = "confirmed"
         /\ Cardinality(RunsOf(replies[j - 1].episode)) = 1
         /\ (j = Len(replies) => Falsy(Pending(replies[j].session_id)))
  /\ \A j \in 3..Len(replies) :
       /\ replies[j].token = "yes" /\ replies[j - 1].token = "yes"
       /\ j - 2 \in Prompts /\ Follows(j, j - 1) /\ Follows(j - 1, j - 2)
       => /\ RunsBy(replies[j].n) = {}
          /\ replies[j].result =
               Response("no pending operation", "", 0, "error", FALSE)
C2_Witness ==
  /\ Len(replies) = 3 /\ 1 \in Prompts
  /\ replies[2].token = "yes" /\ replies[3].token = "yes"
  /\ Len(executions) = 1 /\ executions[1].success /\ executions[1].changed

(***************************************************************************)
(* C3.  Requests of a session handled one at a time: a 'no' that follows   *)
(* a confirmation prompt changes no Order and no Product, empties the      *)
(* slot and returns type 'cancelled'; the cancelled operation is not       *)
(* executed then nor by any later 'yes'.                                   *)
(***************************************************************************)
C3_NoState ==
  \A j \in 2..Len(replies) :
    replies[j].token = "no" /\ j - 1 \in Prompts /\ Follows(j, j - 1) =>
      /\ replies[j].result = Response("cancelled", "", 0, "cancelled", TRUE)
      /\ RunsBy(replies[j].n) = {}
      /\ RunsOf(replies[j - 1].episode) = {}
      /\ (j = Len(replies) => Falsy(Pending(replies[j].session_id)))
C3_NoStep ==
  (\E w \in Workers : req[w].token = "no") =>
    orders' = orders /\ products' = products
C3_NoCancels == [](C3_NoState) /\ [][C3_NoStep]_vars
C3_Witness ==
  /\ Len(replies) = 3 /\ 1 \in Prompts
  /\ replies[2].token = "no" /\ replies[3].token = "yes"
  /\ replies[1].operation_result.type = "order_delete"
  /\ replies[1].operation_result.target_id \in DOMAIN orders

(***************************************************************************)
(* C4.  Requests of a session handled one at a time: the memory table      *)
(* holds at most one pending-operation row per session, so a session has   *)
(* zero or one pending operation; after a confirmation prompt the slot     *)
(* holds the operation of that prompt only, and the operation of an        *)
(* earlier prompt is executed by no request that comes after the newer     *)
(* prompt.                                                                 *)
(***************************************************************************)
PendingRows(session_id) ==
  {i \in 1..Len(memory) :
     memory[i].session_id = session_id /\ memory[i].key = PendingKey}
ExecutedAfter(p, m) ==
  \E i \in RunsOf(replies[p].episode) : executions[i].seen >= m
AppliedAfter(p, m) ==
  \E i \in RunsOf(replies[p].episode) :
    executions[i].seen >= m /\ executions[i].success
Supersedes(m, p) ==
  /\ replies[m].token = "command"
  /\ replies[m].session_id = replies[p].session_id
  /\ replies[m].seen >= p
C5_AnyMessageDrops ==
  \A p \in Prompts : \A m \in 1..Len(replies) :
    Supersedes(m, p) => ~AppliedAfter(p, m)
(***************************************************************************)
(* C5 as amended: only a command that requires confirmation drops the      *)
(* pending operation (it is executed by no 'yes' that comes after that     *)
(* command); the steps of an unrecognized message and of an auto-executed  *)
(* command leave the memory table, and so the pending operation, as it is. *)
(***************************************************************************)
C5_PromptDrops ==
  \A p \in Prompts : \A m \in Prompts :
    Supersedes(m, p) => ~ExecutedAfter(p, m)
C5_OthersKeep ==
  (\E w \in Workers : /\ req[w].pc \in {"help", "auto_execute", "auto_save"}
                      /\ req'[w] # req[w])
    => memory' = memory
C5_OnlyPromptsDrop == [](C5_PromptDrops) /\ [][C5_OthersKeep]_vars
C5_Witness ==
  /\ Len(replies) = 3 /\ 1 \in Prompts /\ 2 \in Prompts
  /\ Supersedes(2, 1) /\ replies[3].token = "yes" /\ replies[3].seen = 2
  /\ RunsOf(replies[2].episode) # {} /\ RunsOf(replies[1].episode) = {}

(***************************************************************************)
(* Steps of the Executor, for the properties of its effect.                *)
(***************************************************************************)
\* Worker w takes a step / the step in which w calls the Executor.
Moves(w) == req'[w] # req[w]
Executes(w) == req[w].pc \in {"auto_execute", "confirm_execute"} /\ Moves(w)
StoreUnchanged == orders' = orders /\ products' = products
\* The target of the operation is not in its table.
TargetAbsent(op) ==
  IF op.type \in OrderKinds THEN op.target_id \notin DOMAIN orders
  ELSE op.target_id \notin DOMAIN products
EditKinds == {"order_edit", "product_edit"}

(***************************************************************************)
(* C6.  A command of a bypass kind is executed in its own request, with    *)
(* no prompt; for a command of any other kind the record store is not      *)
(* touched until a 'yes' of that session arrives for the pending           *)
(* operation stored from it: every Executor call for such an operation is  *)
(* made by a 'yes' and for a prompt of that operation returned before,     *)
(* and the store changes only in a step of a 'yes' request or of a         *)
(* bypass-kind command.                                                    *)
(***************************************************************************)
C6_State ==
  /\ \A j \in 1..Len(replies) :
       replies[j].token = "command"
       /\ replies[j].operation_result.type \in BypassKinds =>
         /\ j \notin Prompts
         /\ Cardinality(RunsBy(replies[j].n)) = 1
         /\ \A i \in RunsBy(replies[j].n) :
              /\ executions[i].how = "auto"
              /\ executions[i].operation_result = replies[j].operation_result
  /\ \A i \in 1..Len(executions) :
       executions[i].operation_result.type \notin BypassKinds =>
         /\ executions[i].how = "confirmed"
         /\ \E p \in Prompts :
              /\ p <= executions[i].seen
              /\ replies[p].session_id = executions[i].session_id
              /\ replies[p].episode = executions[i].episode
              /\ replies[p].operation_result = executions[i].operation_result
C6_Step ==
  ~StoreUnchanged =>
    \E w \in Workers :
      /\ Moves(w)
      /\ \/ req[w].token = "yes"
         \/ req[w].token = "command" /\ req[w].operation_result.type \in BypassKinds
C6_BypassOrConfirm == [](C6_State) /\ [][C6_Step]_vars
C6_Witness ==
  /\ Len(replies) = 3
  /\ replies[1].operation_result.type = "product_update_stock"
  /\ 1 \notin Prompts /\ products[1].stock = 200
  /\ replies[2].operation_result.type = "product_update_price"
  /\ 2 \in Prompts
  /\ replies[3].token = "yes" /\ products[1].price = 1999

(***************************************************************************)
(* C7.  The permission policy, as the handler applies it to a parsed       *)
(* command: a command of a known kind is answered with a confirmation      *)
(* prompt exactly when its kind is neither order_update_status nor         *)
(* product_update_stock; the nine other kinds all get the prompt.          *)
(***************************************************************************)
C7_PolicyTable ==
  \A j \in 1..Len(replies) :
    replies[j].token = "command" /\ replies[j].operation_result.type \in Kinds =>
      /\ j \notin Prompts <=>
           replies[j].operation_result.type
             \in {"order_update_status", "product_update_stock"}
      /\ j \in Prompts <=>
           replies[j].operation_result.type
             \in {"order_delete", "order_edit", "order_update_customer_name",
                  "order_update_phone", "order_update_address",
                  "product_update_price", "product_update_name",
                  "product_update_description", "product_edit"}
C7_Witness ==
  /\ Len(replies) = 3
  /\ replies[1].operation_result.type = "order_update_status" /\ 1 \notin Prompts
  /\ replies[2].operation_result.type = "order_edit" /\ 2 \in Prompts
  /\ replies[3].operation_result.type = "order_update_phone" /\ 3 \in Prompts

(***************************************************************************)
(* C8.  Every call of the Executor for an operation whose target id is     *)
(* not in its table returns success=false, type 'error' and the text       *)
(* "<Entity> #<id> not found" (a result, not an exception), and leaves     *)
(* both tables as they were.                                               *)
(***************************************************************************)
C8_Step ==
  \A w \in Workers :
    Executes(w) /\ TargetAbsent(req[w].operation_result) =>
      /\ req'[w].result.success = FALSE
      /\ req'[w].result.type = "error"
      /\ req'[w].result.response =
           [text |-> "not found",
            entity |-> IF req[w].operation_result.type \in OrderKinds
                         THEN "Order" ELSE "Product",
            id |-> req[w].operation_result.target_id]
      /\ StoreUnchanged
C8_AbsentTarget == [][C8_Step]_vars
\* Reached for every kind K, by 'yes' and by auto-execution.
AbsentRun(K) ==
  \E i \in 1..Len(executions) :
    /\ executions[i].operation_result.type = K
    /\ executions[i].operation_result.target_id = 2
    /\ ~executions[i].success
C8_Witness ==
  /\ AbsentRun("order_update_address") /\ AbsentRun("product_update_stock")
  /\ orders = Orders0 /\ products = Products0

(***************************************************************************)
(* C9.  A call of the Executor for a non-edit operation whose target       *)
(* exists makes exactly one change: the field named by the kind takes the  *)
(* new value on the target row (order_delete removes the target row), and  *)
(* every other field, every other row and the other table stay as they     *)
(* were; a call that returns success=false changes nothing.                *)
(***************************************************************************)
OrderField ==
  [order_update_status |-> "status", order_update_customer_name |-> "customer_name",
   order_update_phone |-> "customer_phone", order_update_address |-> "customer_address"]
ProductField ==
  [product_update_stock |-> "stock", product_update_price |-> "price",
   product_update_name |-> "name", product_update_description |-> "description"]
NewValue(op) ==
  CASE op.type = "order_update_status" -> op.new_status
    [] op.type = "order_update_customer_name" -> op.new_customer_name
    [] op.type = "order_update_phone" -> op.new_phone
    [] op.type = "order_update_address" -> op.new_address
    [] op.type = "product_update_stock" -> op.new_stock
    [] op.type = "product_update_price" -> op.new_price
    [] op.type = "product_update_name" -> op.new_name
    [] op.type = "product_update_description" -> op.new_description
\* Table T2 is T with field f of row id set to v and nothing else changed.
OnlyFieldSet(T, T2, id, f, v) ==
  /\ DOMAIN T2 = DOMAIN T
  /\ \A i \in DOMAIN T \ {id} : T2[i] = T[i]
  /\ DOMAIN T2[id] = DOMAIN T[id]
  /\ \A g \in DOMAIN T[id] \ {f} : T2[id][g] = T[id][g]
  /\ T2[id][f] = v
\* Table T2 is T without row id.
OnlyRowRemoved(T, T2, id) ==
  /\ DOMAIN T2 = DOMAIN T \ {id}
  /\ \A i \in DOMAIN T2 : T2[i] = T[i]
C9_Step ==
  \A w \in Workers : LET op == req[w].operation_result IN
    Executes(w) =>
      /\ ~req'[w].result.success => StoreUnchanged
      /\ ~TargetAbsent(op) /\ op.type \in Kinds \ EditKinds =>
           /\ req'[w].result.success
           /\ CASE op.type = "order_delete" ->
                     /\ OnlyRowRemoved(orders, orders', op.target_id)
                     /\ products' = products
                [] op.type \in DOMAIN OrderField ->
                     /\ OnlyFieldSet(orders, orders', op.target_id,
                                     OrderField[op.type], NewValue(op))
                     /\ products' = products
                [] op.type \in DOMAIN ProductField ->
                     /\ OnlyFieldSet(products, products', op.target_id,
                                     ProductField[op.type], NewValue(op))
                     /\ orders' = orders
C9_OneMutation == [][C9_Step]_vars
\* Reached for every non-edit kind K.
AppliedRun(K) ==
  \E i \in 1..Len(executions) :
    /\ executions[i].operation_result.type = K
    /\ executions[i].success /\ executions[i].changed
C9_Witness ==
  /\ Len(executions) = 2
  /\ executions[1].operation_result.type = "product_update_stock"
  /\ executions[2].operation_result.type = "order_update_customer_name"
  /\ \A i \in 1..2 : executions[i].success /\ executions[i].changed
  /\ orders[1] = [Orders0[1] EXCEPT !.customer_name = <<"nimal">>]
  /\ products[1] = [Products0[1] EXCEPT !.stock = 200]
  /\ orders[3] = Orders0[3] /\ products[3] = Products0[3]

(***************************************************************************)
(* C10.  order_edit and product_edit are read-only: no step of a request   *)
(* that carries or confirms an edit operation changes an Order or a        *)
(* Product, whether the target exists or not, so the store after           *)
(* 'edit order N', 'yes' is the store before.                              *)
(***************************************************************************)
C10_Step ==
  \A w \in Workers :
    /\ Moves(w)
    /\ \/ req[w].operation_result.type \in EditKinds
       \/ req'[w].operation_result.type \in EditKinds
    => StoreUnchanged
C10_EditReadOnly == [][C10_Step]_vars
C10_Witness ==
  /\ Len(replies) = 2 /\ 1 \in Prompts
  /\ replies[1].operation_result = [type |-> "order_edit", target_id |-> 1]
  /\ replies[2].token = "yes" /\ replies[2].result.type = "info"
  /\ Len(executions) = 1 /\ executions[1].success
  /\ orders = Orders0 /\ products = Products0

(***************************************************************************)
(* C11.  A confirmation token received when the slot of the session holds  *)
(* nothing (no row, or a row with the empty value): the reply is the       *)
(* no-pending-operation error with success=false, the request ends there,  *)
(* the Executor is not called, and the record store and the memory table   *)
(* are left as they were.                                                  *)
(***************************************************************************)
NothingPending(w) ==
  req[w].pc = "read_pending" /\ Moves(w) /\ Falsy(Pending(req[w].session_id))
C11_Step ==
  \A w \in Workers :
    NothingPending(w) =>
      /\ req'[w].pc = "idle"
      /\ Len(replies') = Len(replies) + 1
      /\ replies'[Len(replies')].n = req[w].n
      /\ replies'[Len(replies')].result.success = FALSE
      /\ replies'[Len(replies')].result.type = "error"
      /\ replies'[Len(replies')].result.response.text = "no pending operation"
      /\ StoreUnchanged
      /\ memory' = memory /\ history' = history /\ executions' = executions
C11_State ==
  \A j \in 1..Len(replies) :
    replies[j].token \in {"yes", "no"} /\ ~replies[j].result.success
    /\ replies[j].result.response.text = "no pending operation"
      => RunsBy(replies[j].n) = {}
C11_NothingPending == [](C11_State) /\ [][C11_Step]_vars
C11_Witness ==
  /\ Len(replies) = 3 /\ 1 \in Prompts
  /\ replies[2].token = "no" /\ replies[2].result.type = "cancelled"
  /\ replies[3].token = "yes" /\ replies[3].result = NoPending
  /\ Len(memory) = 1 /\ memory[1].value = EmptyValue
  /\ executions = <<>> /\ orders = Orders0 /\ products = Products0
\* The token of a session that never stored anything.
C11_NeverStored ==
  /\ Len(replies) = 1 /\ replies[1].token = "no" /\ replies[1].result = NoPending
  /\ memory = <<>>

(***************************************************************************)
(* C12.  A command that requires confirmation and whose target id is not   *)
(* in its table: the reply carries the "#<id> not found" text, and no step *)
(* of the request changes the memory table or the record store (no         *)
(* pending operation is stored for it).                                    *)
(***************************************************************************)
PromptSteps == {"prompt", "save_query", "save_write"}
AbsentPrompt(w) ==
  /\ req[w].token = "command" /\ req[w].pc \in PromptSteps /\ Moves(w)
  /\ TargetAbsent(req[w].operation_result)
C12_Step ==
  \A w \in Workers :
    AbsentPrompt(w) =>
      /\ memory' = memory
      /\ StoreUnchanged
      /\ Len(replies') > Len(replies) =>
           replies'[Len(replies')].result.response.text = "not found"
C12_AbsentTargetNoChange == [][C12_Step]_vars

(***************************************************************************)
(* C13.  Every message handled appends exactly one audit row, on every     *)
(* path: when no request is in flight the audit table has one row per      *)
(* request received.                                                       *)
(***************************************************************************)
C13_OneRecordPerMessage == NoneInFlight => Len(history) = received

(***************************************************************************)
(* C14.  In every interleaving: the step of a 'yes' that marks the audit   *)
(* table sets confirmed and executed on the row created with the pending   *)
(* operation it executed (same session, kind and target id) and changes no *)
(* other row; the step of a 'no' changes no flag of any row.               *)
(***************************************************************************)
Marks(w) == req[w].pc = "mark" /\ Moves(w)
C14_Step ==
  \A w \in Workers : LET e == req[w].episode IN
    Marks(w) =>
      IF req[w].confirmed
        THEN /\ history[e].session_id = req[w].session_id
             /\ history[e].operation_type = req[w].operation_result.type
             /\ history[e].target_id = req[w].operation_result.target_id
             /\ history' = [history EXCEPT ![e].confirmed = TRUE,
                                           ![e].executed = TRUE]
        ELSE history' = history
C14_MarksItsRecord == [][C14_Step]_vars

(***************************************************************************)
(* C15.  Two sessions, every interleaving: a step of a request of one      *)
(* session changes no memory row and no audit row of another session, and  *)
(* the rows it adds are rows of its own session; the pending operation a   *)
(* yes/no reply reads is one stored in a row of its own session, and every *)
(* confirmed call of the Executor is for an operation prompted in the      *)
(* session of the 'yes'.                                                   *)
(***************************************************************************)
\* The session of the request that worker w is handling in this step.
SessionOf(w) == IF req[w].pc = "idle" THEN req'[w].session_id ELSE req[w].session_id
\* Table T2 keeps the rows of T that are not of session s, and adds rows of
\* session s only.
OthersKept(T, T2, s) ==
  /\ Len(T2) >= Len(T)
  /\ \A i \in 1..Len(T) : T[i].session_id # s => T2[i] = T[i]
  /\ \A i \in Len(T) + 1..Len(T2) : T2[i].session_id = s
C15_Step ==
  \A w \in Workers :
    Moves(w) =>
      /\ OthersKept(memory, memory', SessionOf(w))
      /\ OthersKept(history, history', SessionOf(w))
      /\ req[w].pc = "read_pending" /\ req'[w].pc # "idle" =>
           \E i \in PendingRows(req[w].session_id) :
             /\ memory[i].value = <<req'[w].operation_result>>
             /\ memory[i].episode = req'[w].episode
C15_State ==
  \A i \in ConfirmedRuns :
    /\ history[executions[i].episode].session_id = executions[i].session_id
    /\ history[executions[i].episode].operation_type
         = executions[i].operation_result.type
C15_SessionsApart == [](C15_State) /\ [][C15_Step]_vars
C15_Witness ==
  /\ Len(replies) = 3 /\ 1 \in Prompts /\ 2 \in Prompts
  /\ replies[1].session_id = "sA" /\ replies[2].session_id = "sB"
  /\ replies[3].session_id = "sA" /\ replies[3].token = "yes"
  /\ Len(executions) = 1 /\ executions[1].success
  /\ executions[1].operation_result = replies[1].operation_result
  /\ Pending("sB") = <<replies[2].operation_result>>
  /\ Falsy(Pending("sA"))
  /\ history[1].confirmed /\ ~history[2].confirmed

(***************************************************************************)
(* C16.  In every interleaving of the requests of a session: when a        *)
(* yes/no reply clears the slot, the slot is empty already or holds the    *)
(* pending operation that this reply read and acted on; the operation of   *)
(* a prompt stored meanwhile is not erased by it.                          *)
(***************************************************************************)
Clears(w) ==
  req[w].pc = "save_write" /\ req[w].value = EmptyValue /\ Moves(w)
C16_Step ==
  \A w \in Workers :
    Clears(w) /\ req[w].memory # NoRow /\ ~Falsy(memory[req[w].memory].value) =>
      /\ memory[req[w].memory].value = <<req[w].operation_result>>
      /\ memory[req[w].memory].episode = req[w].episode
C16_ClearsWhatItRead == [][C16_Step]_vars

(***************************************************************************)
(* C17.  In every interleaving of the requests of a session a pending      *)
(* operation has one outcome at most: the Executor is not called for an    *)
(* operation that a 'no' has cancelled or that a newer pending operation   *)
(* has replaced in the slot, and a 'no' does not return its                *)
(* acknowledgement for an operation that was executed.                     *)
(***************************************************************************)
\* A 'no' returned the cancellation acknowledgement for the operation of
\* the prompt with audit row e.
Cancelled(e) ==
  \E j \in 1..Len(replies) :
    /\ replies[j].token = "no" /\ replies[j].result.type = "cancelled"
    /\ replies[j].episode = e
\* The slot of the session holds the operation of a prompt other than e.
Replaced(session_id, e) ==
  \E i \in PendingRows(session_id) :
    ~Falsy(memory[i].value) /\ memory[i].episode # e
C17_Step ==
  \A w \in Workers :
    /\ req[w].pc = "confirm_execute" /\ Moves(w) =>
         /\ ~Cancelled(req[w].episode)
         /\ ~Replaced(req[w].session_id, req[w].episode)
    /\ req[w].token = "no" /\ req[w].pc = "save_write" /\ Moves(w) =>
         RunsOf(req[w].episode) = {}
C17_OneOutcome == [][C17_Step]_vars

(***************************************************************************)
(* C18.  Requests of a session handled one at a time.  A pending operation *)
(* does not expire: the memory table changes only in steps of a yes/no     *)
(* reply or of a command that requires confirmation, so after a prompt     *)
(* followed by any number of other messages the slot still holds the       *)
(* operation of the prompt, and a 'yes' that comes then executes exactly   *)
(* that operation.                                                         *)
(***************************************************************************)
\* Between the prompt p and the response j only messages that are neither
\* yes/no replies nor prompts were answered.
OnlyOthersBetween(p, j) ==
  \A m \in p + 1..j - 1 : replies[m].token = "command" /\ m \notin Prompts
\* No request that writes the slot is in flight.
NoWriterInFlight ==
  \A w \in Workers : req[w].pc \in {"idle", "help", "auto_execute", "auto_save"}
C18_State ==
  \A p \in Prompts :
    /\ OnlyOthersBetween(p, Len(replies) + 1) /\ NoWriterInFlight =>
         Pending(replies[p].session_id) = <<replies[p].operation_result>>
    /\ \A j \in p + 1..Len(replies) :
         replies[j].token = "yes" /\ OnlyOthersBetween(p, j) =>
           /\ Cardinality(RunsBy(replies[j].n)) = 1
           /\ \A i \in RunsBy(replies[j].n) :
                /\ executions[i].operation_result = replies[p].operation_result
                /\ executions[i].episode = replies[p].episode
                /\ executions[i].how = "confirmed"
C18_Step ==
  memory' # memory =>
    \E w \in Workers :
      /\ Moves(w)
      /\ \/ req[w].token \in {"yes", "no"}
         \/ /\ req[w].token = "command"
            /\ req[w].operation_result.type \in Kinds \ BypassKinds
C18_NoTimeout == [](C18_State) /\ [][C18_Step]_vars
C18_Witness ==
  /\ Len(replies) = 3 /\ 1 \in Prompts
  /\ replies[1].operation_result.type = "product_update_price"
  /\ replies[2].result.type = "help"
  /\ replies[3].token = "yes" /\ replies[3].result.success
  /\ products[1].price = 1999

(***************************************************************************)
(* C19.  parse_adk_operation returns an operation for every message (it    *)
(* raises nothing), and for a stock or price command whose value text is   *)
(* no valid number it returns the unknown operation.                       *)
(***************************************************************************)
\* The message is  <verb> product <id> <field> to <value>.
IsSetNumber(msg, field) ==
  /\ Len(msg) = 6 /\ msg[1] \in Verbs /\ msg[2] = "product"
  /\ msg[3] \in ParseIds /\ msg[4] = field /\ msg[5] = "to"
\* The texts that are valid numbers: int() and float() accept them whole.
ValidInt(v) == v \in DOMAIN IntOf
ValidFloat(v) == v \in DOMAIN FloatOf
C19_ParseNeverFails ==
  parsed # NotParsed =>
    /\ parsed.type \in Kinds \cup {"unknown"}
    /\ IsSetNumber(message, "stock") /\ ~ValidInt(message[6]) => parsed = Unknown
    /\ IsSetNumber(message, "price") /\ ~ValidFloat(message[6]) => parsed = Unknown

(***************************************************************************)
(* C20.  For every id and every status text s of the messages, parsing     *)
(* 'update order <id> status to <s>' gives order_update_status with        *)
(* target_id = id and new_status = s title-cased, all its words.           *)
(***************************************************************************)
\* The message is  update order <id> status to <s>.
IsSetStatus(msg) ==
  /\ Len(msg) >= 6 /\ SubSeq(msg, 1, 2) = <<"update", "order">>
  /\ msg[3] \in ParseIds /\ SubSeq(msg, 4, 5) = <<"status", "to">>
  /\ SubSeq(msg, 6, Len(msg)) \in StatusTexts
\* str.title() of a text: every word title-cased.
TitleCase(st) == [i \in 1..Len(st) |-> Title(st[i])]
StatusAndEdit(msg) ==
  /\ IdAt(msg, "order") # {}
  /\ Has(msg, "status")
  /\ Has(msg, "edit") \/ Has(msg, "update")
C21_StatusBeforeEdit ==
  parsed # NotParsed /\ StatusAndEdit(message) =>
    parsed.type = "order_update_status"
(***************************************************************************)
(* C21 as amended: such a message is never parsed as order_edit.  It is    *)
(* order_delete when it contains 'delete'; otherwise the status operation  *)
(* when 'status to <word>' occurs in it, and the unknown operation when    *)
(* 'status' comes without 'to <word>'.                                     *)
(***************************************************************************)
C21_NeverGenericEdit ==
  parsed # NotParsed /\ StatusAndEdit(message) =>
    /\ parsed.type # "order_edit"
    /\ parsed.type =
         IF \E i \in 1..Len(message) : message[i] \in {"delete", "undeleted"}
           THEN "order_delete"
         ELSE IF \E i \in 1..Len(message) - 2 :
                   message[i] = "status" /\ message[i + 1] = "to"
           THEN "order_update_status"
         ELSE "unknown"
C21_Witness ==
  /\ message = <<"edit", "order", "1", "status", "to", "shipped">>
  /\ parsed = [type |-> "order_update_status", target_id |-> 1,
               new_status |-> "Shipped"]

(***************************************************************************)
(* C22.  Parsing 'change order <id> customer name to <val>' gives          *)
(* order_update_customer_name for that id with new_customer_name = val,    *)
(* all the words of val up to the end of the message.                      *)
(***************************************************************************)
\* The message is  change order <id> customer name to <val>.
IsSetCustomerName(msg) ==
  /\ Len(msg) >= 7 /\ SubSeq(msg, 1, 2) = <<"change", "order">>
  /\ msg[3] \in ParseIds
  /\ SubSeq(msg, 4, 6) = <<"customer", "name", "to">>
C22_WholeName ==
  parsed # NotParsed /\ IsSetCustomerName(message) =>
    parsed = [type |-> "order_update_customer_name",
              target_id |-> IntOf[message[3]],
              new_customer_name |-> SubSeq(message, 7, Len(message))]

(***************************************************************************)
(* C23.  Parsing 'change order <id> address to <val>' gives                *)
(* order_update_address for that id with new_address = val, whatever the   *)
(* words of val.                                                           *)
(***************************************************************************)
\* The message is  change order <id> address to <val>.
IsSetAddress(msg) ==
  /\ Len(msg) >= 6 /\ SubSeq(msg, 1, 2) = <<"change", "order">>
  /\ msg[3] \in ParseIds
  /\ SubSeq(msg, 4, 5) = <<"address", "to">>
C23_AnyAddress ==
  parsed # NotParsed /\ IsSetAddress(message) =>
    parsed = [type |-> "order_update_address",
              target_id |-> IntOf[message[3]],
              new_address |-> SubSeq(message, 6, Len(message))]

(***************************************************************************)
(* C24.  The memory table is last-write-wins per session and key: right    *)
(* after a write of save_adk_memory a reader of the pair gets the value    *)
(* written, and gets it until the next write (no other step changes the    *)
(* table); a pair never written reads as None; no row is ever removed or   *)
(* moved to another pair.                                                  *)
(***************************************************************************)
Writes(w) == req[w].pc = "save_write" /\ Moves(w)
C24_Step ==
  /\ \A w \in Workers :
       Writes(w) =>
         get_adk_memory(memory', req[w].session_id, PendingKey) = req[w].value
  /\ (\A w \in Workers : ~Writes(w)) => memory' = memory
  /\ Len(memory') >= Len(memory)
  /\ \A i \in 1..Len(memory) :
       /\ memory'[i].session_id = memory[i].session_id
       /\ memory'[i].key = memory[i].key
C24_State ==
  \A session_id \in Sessions :
    PendingRows(session_id) = {} <=> Pending(session_id) = None
C24_LastWriteWins == [](C24_State) /\ [][C24_Step]_vars

(***************************************************************************)
(* C25.  The response of the history endpoint holds rows of the caller's   *)
(* session only: the 20 most recently created ones, all of them when there *)
(* are fewer, and of any two of them the one created earlier comes first.  *)
(***************************************************************************)
\* The ids of the audit rows of the session.
IdsOf(session_id) ==
  {history[i].id : i \in {j \in 1..Len(history) : history[j].session_id = session_id}}
ShownIds == {shown.history[i].id : i \in 1..Len(shown.history)}
C25_RecentOldestFirst ==
  shown # NotShown =>
    /\ \A i \in 1..Len(shown.history) :
         /\ shown.history[i].session_id = shown.session_id
         /\ shown.history[i] = history[shown.history[i].id]
    /\ Len(shown.history) =
         IF Cardinality(IdsOf(shown.session_id)) < 20
           THEN Cardinality(IdsOf(shown.session_id)) ELSE 20
    /\ Cardinality(ShownIds) = Len(shown.history)
    /\ \A a \in IdsOf(shown.session_id) \ ShownIds : \A b \in ShownIds : a < b
    /\ \A i, j \in 1..Len(shown.history) :
         i < j => shown.history[i].id < shown.history[j].id
C25_Witness ==
  /\ shown # NotShown /\ shown.session_id = "sA"
  /\ Len(shown.history) = 20
  /\ Cardinality(IdsOf("sA")) = 21 /\ Cardinality(IdsOf("sB")) = 1
  /\ history[1].session_id = "sA" /\ history[2].session_id = "sB"
  /\ shown.history[1].id = 3 /\ shown.history[20].id = 22

(***************************************************************************)
(* C26.  An audit row has executed = TRUE only if the Executor returned    *)
(* success for the operation of that row.                                  *)
(***************************************************************************)
C26_ExecutedMeansSuccess ==
  \A e \in 1..Len(history) :
    history[e].executed => \E i \in RunsOf(e) : executions[i].success

(***************************************************************************)
(* C27.  Once the request has returned, every change the Executor made to  *)
(* the record store is reflected by an audit row of the session, of the    *)
(* kind and target of the operation, with executed = TRUE.                 *)
(***************************************************************************)
Reflects(e, i) ==
  /\ history[e].session_id = executions[i].session_id
  /\ history[e].operation_type = executions[i].operation_result.type
  /\ history[e].target_id = executions[i].operation_result.target_id
  /\ history[e].executed
C27_MutationsAudited ==
  NoneInFlight =>
    \A i \in 1..Len(executions) :
      executions[i].changed => \E e \in 1..Len(history) : Reflects(e, i)

(***************************************************************************)
(* The status commands of the chat path, one session, one request at a     *)
(* time.                                                                   *)
(***************************************************************************)
\* `new_status in ['Pending', 'Shipped', 'Delivered', 'Cancelled']` of the
\* admin route admin_update_order_status.
AcceptedStatuses == {"Pending", "Shipped", "Delivered", "Cancelled"}
\* 'update order <id> status to <s>', and one message for each other path
\* of adk_operations.
StatusMessages ==
  { <<"update", "order", id, "status", "to">> \o s :
      id \in Ids, s \in {<<"shipped">>, <<"delivered">>,
                         <<"out", "for", "delivery">>} }
    \cup {<<"delete", "order", "1">>, <<"hello">>, <<"yes">>, <<"no">>}
NextStatus ==
  \E w \in Workers :
    (NoneInFlight \/ req[w].pc # "idle") /\ Step(w, {"sA"}, StatusMessages)
SpecStatus == Init /\ [][NextStatus]_vars

(***************************************************************************)
(* C28.  The status of every order is one of the values the admin          *)
(* status-update route accepts.                                            *)
(***************************************************************************)
C28_StatusAccepted ==
  \A id \in DOMAIN orders : orders[id].status \in AcceptedStatuses

(***************************************************************************)
(* The chat entry point admin_chatbot, one session, one request at a time. *)
(* It hands the request to adk_operations or to the general handlers: the  *)
(* bridge and its fallbacks.                                               *)
(***************************************************************************)
\* The bridge translates a request in natural language to a command
\* ("remove order 123" -> "delete order 123").
Translations == (<<"remove", "order", "1">> :> <<"delete", "order", "1">>)
\* The operation of the translated command, Unknown if the bridge gives no
\* command for the message.
Translated(msg) ==
  IF msg \in DOMAIN Translations THEN parse_adk_operation(Translations[msg])
  ELSE Unknown
\* The messages of the entry point: tokens, a token followed by white
\* space, a command that needs confirmation, one that does not, a request
\* the bridge translates and a message that is no command.
ChatMessages ==
  { <<"yes">>, <<"no">>, <<"confirm">>, <<"yes", Blank>>,
    <<"delete", "order", "1">>,
    <<"update", "product", "1", "stock", "to", "200">>,
    <<"remove", "order", "1">>,
    <<"hello">> }
\* The reply of a general handler.
GeneralReply == Response("general", "", 0, "general", TRUE)

\* admin_chatbot up to its return: the message is parsed as it came; a
\* token goes to adk_operations if get_adk_memory gives a pending operation,
\* a command goes to adk_operations, everything else to the general
\* handlers.  adk_operations strips the message and tests and parses it again.
ChatReceive(w, Sess, Msgs) ==
  /\ req[w].pc = "idle"
  /\ \A v \in Workers : v < w => req[v].pc # "idle"
  /\ received < MaxRequests
  /\ received' = received + 1
  /\ \E session_id \in Sess, message_in \in Msgs :
       LET operation_result == parse_adk_operation(message_in)
           msg == strip(message_in)
           pending_op_json == get_adk_memory(memory, session_id, PendingKey)
           r == [Idle EXCEPT !.n = received + 1, !.seen = Len(replies),
                             !.session_id = session_id,
                             !.token = Token(msg), !.confirmed = IsYes(msg)]
       IN
       IF (IsYes(message_in) \/ IsNo(message_in)) /\ ~Falsy(pending_op_json) THEN
         req' = [req EXCEPT ![w] = [r EXCEPT !.pc = "read_pending"]]
       ELSE IF operation_result.type # "unknown" THEN
         req' = [req EXCEPT ![w] =
                   [r EXCEPT !.operation_result = operation_result,
                             !.pc = IF ~check_adk_permissions(operation_result.type)
                                    THEN "prompt" ELSE "auto_execute"]]
       ELSE
         req' = [req EXCEPT ![w] =
                   [r EXCEPT !.operation_result = Translated(message_in),
                             !.pc = "general"]]
  /\ UNCHANGED <<orders, products, memory, history, executions, replies,
                 message, parsed, shown>>
\* The bridge gave a command: the message is saved to the history and the
\* command is handed to adk_operations.
Translate(w) ==
  /\ req[w].pc = "general"
  /\ req[w].operation_result.type # "unknown"
  /\ history' = save_chat_history(history, req[w].session_id, "", 0, FALSE)
  /\ req' = [req EXCEPT ![w].token = "command", ![w].confirmed = FALSE,
                        ![w].pc = IF ~check_adk_permissions(req[w].operation_result.type)
                                  THEN "prompt" ELSE "auto_execute"]
  /\ UNCHANGED <<orders, products, memory, received, executions, replies,
                 message, parsed, shown>>
\* The bridge, or the fallback that stands in for it, answers the message:
\* the answer is saved to the history and returned.
General(w) ==
  /\ req[w].pc = "general"
  /\ history' = save_chat_history(history, req[w].session_id, "", 0, FALSE)
  /\ Return(w, [req[w] EXCEPT !.operation_result = Unknown], GeneralReply)
  /\ UNCHANGED <<orders, products, memory, received, executions, message, parsed, shown>>

ChatStep(w) ==
  \/ ChatReceive(w, {"sA"}, ChatMessages)
  \/ Translate(w)
  \/ General(w)
  \/ Prompt(w)
  \/ SaveQuery(w)
  \/ SaveWrite(w)
  \/ AutoExecute(w)
  \/ AutoSave(w)
  \/ ReadPending(w)
  \/ ConfirmExecute(w)
  \/ Mark(w)
NextChat == \E w \in Workers : (NoneInFlight \/ req[w].pc # "idle") /\ ChatStep(w)
SpecChat == Init /\ [][NextChat]_vars

(***************************************************************************)
(* C29.  admin_chatbot hands a yes/no token to the confirmation handler    *)
(* if and only if the pending slot of the session is not empty; otherwise  *)
(* the token goes to the general handlers, which execute nothing and       *)
(* leave the record store and the pending slot as they are.                *)
(***************************************************************************)
C29_Routed ==
  \A w \in Workers :
    (req[w].pc = "idle" /\ req'[w].pc # "idle" /\ req'[w].token # "command") =>
      /\ req'[w].pc \in {"read_pending", "general"}
      /\ req'[w].pc = "read_pending" <=> ~Falsy(Pending(req'[w].session_id))
C29_PassedOn ==
  \A w \in Workers :
    (req[w].pc = "general" /\ req[w].token # "command" /\ Moves(w)) =>
      /\ req'[w].pc = "idle"
      /\ StoreUnchanged
      /\ UNCHANGED <<memory, executions>>
C29_Executed ==
  \A j \in 1..Len(replies) :
    (replies[j].token # "command" /\ replies[j].result = GeneralReply) =>
      RunsBy(replies[j].n) = {}
C29_TokenRouting == [](C29_Executed) /\ [][C29_Routed /\ C29_PassedOn]_vars

(***************************************************************************)
(* C30.  For every session and key the memory table holds at most one row, *)
(* also when two requests of the session write the key for the first time  *)
(* concurrently.                                                           *)
(***************************************************************************)
RowsOf(session_id, key) ==
  {i \in 1..Len(memory) : memory[i].session_id = session_id /\ memory[i].key = key}
C30_OneRowPerKey ==
  \A session_id \in Sessions : Cardinality(RowsOf(session_id, PendingKey)) <= 1

====
